---- MODULE Spec2Model ----
(***************************************************************************)
(* A state-machine model of src/src/App.js: the session token kept in      *)
(* localStorage, the router location, the in-flight fetches and their      *)
(* continuations, the ProductList and ProductDetails view state, the       *)
(* augmentation of fetched photos and the filter/sort pipeline.            *)
(*                                                                         *)
(* Text is modelled as sequences of one-character strings so that          *)
(* toLowerCase, includes, Number and String are computed, not assumed.     *)
(***************************************************************************)
EXTENDS Integers, Sequences, FiniteSets, Bags, TLC

(***************************************************************************)
(* Bounds of the model.                                                    *)
(***************************************************************************)
\* In-flight fetches plus mount effects that have not run yet.
MaxPending == 2

(***************************************************************************)
(* JavaScript values.                                                      *)
(***************************************************************************)
\* localStorage.getItem on a missing key
NoToken == "<null>"
\* the value of a missing property
Undefined == "<undefined>"

\* A JavaScript number as far as the program meets it: finite integers, NaN and
\* the two infinities.
Num(n) == [k |-> "int", v |-> n]
NaN == [k |-> "nan", v |-> 0]
PosInfinity == [k |-> "+inf", v |-> 0]
NegInfinity == [k |-> "-inf", v |-> 0]

Digits == <<"0", "1", "2", "3", "4", "5", "6", "7", "8", "9">>

DigitValue(c) == (CHOOSE i \in 1..10 : Digits[i] = c) - 1

IsDigit(c) == \E i \in 1..10 : Digits[i] = c

RECURSIVE DigitsValue(_)
DigitsValue(s) ==
  IF s = <<>> THEN 0
  ELSE 10 * DigitsValue(SubSeq(s, 1, Len(s) - 1)) + DigitValue(s[Len(s)])

\* Number(text): the empty text is 0, an optionally signed run of decimal digits
\* is its value, anything else is NaN.
NumberOfText(s) ==
  IF s = <<>> THEN Num(0)
  ELSE LET neg == s[1] = "-"
           body == IF neg THEN Tail(s) ELSE s
       IN IF body # <<>> /\ \A i \in 1..Len(body) : IsDigit(body[i])
            THEN Num(IF neg THEN 0 - DigitsValue(body) ELSE DigitsValue(body))
            ELSE NaN

\* A photo id as the payload carries it: a number or a text.
IdNum(n) == [t |-> "number", n |-> n, s |-> <<>>]
IdText(s) == [t |-> "string", n |-> 0, s |-> s]

\* Number(photo.id)
NumberOfId(id) ==
  CASE id.t = "number" -> Num(id.n)
    [] id.t = "string" -> NumberOfText(id.s)
    [] OTHER -> NaN

RECURSIVE NatToText(_)
NatToText(n) ==
  IF n < 10 THEN <<Digits[n + 1]>>
  ELSE NatToText(n \div 10) \o <<Digits[(n % 10) + 1]>>

\* String(photo.id)
StringOfId(id) ==
  CASE id.t = "number" ->
         IF id.n < 0 THEN <<"-">> \o NatToText(0 - id.n) ELSE NatToText(id.n)
    [] id.t = "string" -> id.s
    [] OTHER -> <<"u", "n", "d", "e", "f", "i", "n", "e", "d">>

\* x is falsy as the left operand of ||
FalsyNumber(x) == x.k = "nan" \/ (x.k = "int" /\ x.v = 0)

\* a % b of JavaScript for b > 0: the result has the sign of a.
JsRem(a, b) == IF a >= 0 THEN a % b ELSE 0 - ((0 - a) % b)

Upper == <<"A", "B", "C", "D", "E", "F", "G", "H", "I", "J", "K", "L", "M",
           "N", "O", "P", "Q", "R", "S", "T", "U", "V", "W", "X", "Y", "Z">>
Lower == <<"a", "b", "c", "d", "e", "f", "g", "h", "i", "j", "k", "l", "m",
           "n", "o", "p", "q", "r", "s", "t", "u", "v", "w", "x", "y", "z">>

LowerChar(c) ==
  IF \E i \in 1..26 : Upper[i] = c
    THEN Lower[CHOOSE i \in 1..26 : Upper[i] = c]
    ELSE c

\* text.toLowerCase()
ToLowerCase(s) == [i \in 1..Len(s) |-> LowerChar(s[i])]

\* text.includes(part)
Includes(s, part) ==
  \E i \in 0..(Len(s) - Len(part)) :
    \A j \in 1..Len(part) : s[i + j] = part[j]

(***************************************************************************)
(* Augmentation: ProductList.augment and the inline copy in                *)
(* ProductDetails.                                                         *)
(***************************************************************************)
categories == <<"Mobile", "Laptop", "Accessories", "Home", "Grocery">>

PriceMul == 97
PriceMod == 149500
PriceBase == 500
ListFallbackRange == 1000
DetailFallbackRange == 10000

\* categories[i] for an integer i: undefined outside the array
CategoryAt(i) == IF i \in 0..(Len(categories) - 1) THEN categories[i + 1] ELSE Undefined

\* The shared body of the two augmentations; rnd is the value of
\* Math.floor(Math.random() * range), used only when Number(photo.id) is falsy.
AugmentWith(photo, rnd) ==
  LET n == NumberOfId(photo.id)
      id == IF FalsyNumber(n) THEN rnd ELSE n.v
  IN [id |-> photo.id, title |-> photo.title,
      category |-> CategoryAt(JsRem(id, Len(categories))),
      price |-> JsRem(id * PriceMul, PriceMod) + PriceBase]

augment(photo, rnd) == AugmentWith(photo, rnd)

DetailAugment(photo, rnd) == AugmentWith(photo, rnd)

(***************************************************************************)
(* The filter/sort pipeline: the useMemo that computes `filtered`.         *)
(***************************************************************************)
\* useState({ search: "", category: "", minPrice: "", maxPrice: "", sort: "" })
InitialFilters ==
  [search |-> <<>>, category |-> "", minPrice |-> <<>>, maxPrice |-> <<>>, sort |-> ""]

\* Number(text) || fallback
NumberOr(text, fallback) ==
  LET n == NumberOfText(text) IN IF FalsyNumber(n) THEN fallback ELSE n

\* price >= m and price <= m for an integer price and a bound that may be infinite
PriceGE(price, m) == m.k = "-inf" \/ (m.k = "int" /\ price >= m.v)
PriceLE(price, m) == m.k = "+inf" \/ (m.k = "int" /\ price <= m.v)

\* One comparator for both orders.
CompareAscending(sort, a, b) == a.price - b.price

\* The comparators handed to sort: (a, b) => a.price - b.price for "asc",
\* (a, b) => b.price - a.price for "desc".
Compare(sort, a, b) == IF sort = "asc" THEN a.price - b.price ELSE b.price - a.price

\* Array.prototype.sort is stable: x goes after every element that does not
\* compare greater than it.
RECURSIVE InsertSorted(_, _, _)
InsertSorted(sort, s, x) ==
  IF s = <<>> THEN <<x>>
  ELSE IF Compare(sort, s[Len(s)], x) <= 0 THEN Append(s, x)
  ELSE Append(InsertSorted(sort, SubSeq(s, 1, Len(s) - 1), x), s[Len(s)])

RECURSIVE ArraySort(_, _)
ArraySort(sort, s) ==
  IF s = <<>> THEN <<>>
  ELSE InsertSorted(sort, ArraySort(sort, SubSeq(s, 1, Len(s) - 1)), s[Len(s)])

KeepSearch(p, f) == Includes(ToLowerCase(p.title), ToLowerCase(f.search))
KeepCategory(p, f) == p.category = f.category
KeepPrice(p, f) ==
  /\ PriceGE(p.price, NumberOr(f.minPrice, NegInfinity))
  /\ PriceLE(p.price, NumberOr(f.maxPrice, PosInfinity))

\* filtered: a copy of items narrowed by search, category and price, then sorted.
Filtered(its, f) ==
  LET out0 == its
      out1 == IF f.search # <<>> THEN SelectSeq(out0, LAMBDA p : KeepSearch(p, f)) ELSE out0
      out2 == IF f.category # "" THEN SelectSeq(out1, LAMBDA p : KeepCategory(p, f)) ELSE out1
      out3 == SelectSeq(out2, LAMBDA p : KeepPrice(p, f))
      out4 == IF f.sort = "asc" THEN ArraySort("asc", out3) ELSE out3
      out5 == IF f.sort = "desc" THEN ArraySort("desc", out4) ELSE out4
  IN out5

(***************************************************************************)
(* What the backend may answer.                                            *)
(***************************************************************************)
RedPhone == <<"R", "e", "d", " ", "P", "h", "o", "n", "e">>
BlueLaptop == <<"B", "l", "u", "e", " ", "L", "a", "p", "t", "o", "p">>
BlueCase == <<"B", "L", "U", "E", " ", "c", "a", "s", "e">>
RedPhoneXL == <<"r", "e", "d", " ", "p", "h", "o", "n", "e", " ", "X", "L">>
Lamp == <<"L", "a", "m", "p">>
Rice == <<"R", "i", "c", "e">>

Photo(id, title) == [id |-> id, title |-> title]

\* The two photos of the specification's scenario, ids as GraphQL ID texts.
CatalogSmall == <<Photo(IdText(<<"1">>), RedPhone), Photo(IdText(<<"2">>), BlueLaptop)>>

\* Numeric ids, among them two of equal price (1 and 149501), 0 and a negative.
CatalogWide ==
  <<Photo(IdNum(10), BlueCase), Photo(IdNum(1), RedPhone),
    Photo(IdNum(149501), RedPhoneXL), Photo(IdNum(2), BlueLaptop),
    Photo(IdNum(0), Lamp), Photo(IdNum(0 - 1), Rice)>>

\* A value found (or not) at a path of the decoded body.
JsUndefined == [t |-> "undefined", v |-> <<>>]
JsArray(a) == [t |-> "array", v |-> a]
JsString == [t |-> "string", v |-> <<>>]

\* fetch rejected: the network failed
Rejected == [fetch |-> "reject"]

\* /api/products: the body is no JSON, or JSON with data.data.photos.data
\* (outer) and data.photos.data (inner) as given.
ProductsText(ok) == [fetch |-> "resolve", ok |-> ok, body |-> "text"]
ProductsJson(ok, outer, inner) ==
  [fetch |-> "resolve", ok |-> ok, body |-> "json", outer |-> outer, inner |-> inner]

ProductResponses ==
  { Rejected,
    ProductsText(FALSE),
    ProductsJson(FALSE, JsUndefined, JsUndefined),
    ProductsJson(TRUE, JsUndefined, JsUndefined),
    ProductsJson(TRUE, JsUndefined, JsString),
    ProductsJson(TRUE, JsArray(CatalogSmall), JsUndefined),
    ProductsJson(TRUE, JsUndefined, JsArray(CatalogWide)) }

\* /api/auth/login and /api/auth/signup: the body is no JSON, or JSON with
\* data.token and data.error as given.
AuthText(ok) == [fetch |-> "resolve", ok |-> ok, body |-> "text"]
AuthJson(ok, tok, error) ==
  [fetch |-> "resolve", ok |-> ok, body |-> "json", token |-> tok, error |-> error]

Tokens == {"A", "B"}

LoginResponses ==
  { Rejected, AuthText(FALSE),
    AuthJson(FALSE, Undefined, "Invalid credentials"),
    AuthJson(FALSE, "A", Undefined),
    AuthJson(TRUE, Undefined, Undefined),
    AuthJson(TRUE, "", Undefined) }
  \cup { AuthJson(TRUE, t, Undefined) : t \in Tokens }

SignupResponses ==
  { Rejected, AuthText(TRUE),
    AuthJson(TRUE, Undefined, Undefined),
    AuthJson(FALSE, Undefined, "User already exists"),
    AuthJson(FALSE, Undefined, Undefined) }

\* Values Math.floor(Math.random() * range) may take, one low and the highest.
RandomBelow(range) == {7, range - 1}

(***************************************************************************)
(* The state.                                                              *)
(***************************************************************************)
VARIABLES
  token,        \* localStorage "token", NoToken when the key is missing
  route,        \* the route the router shows
  idParam,      \* useParams().id on the detail route
  historyUsr,   \* window.history.state.usr of the current entry
  pending,      \* the fetches in flight, a bag of requests
  items,        \* ProductList: items
  loading,      \* ProductList: loading
  filters,      \* ProductList: filters
  listEffect,   \* ProductList: its mount effect, "none" once it has run
  product,      \* ProductDetails: product
  detailEffect, \* ProductDetails: its mount effect
  alert,        \* the message the last step showed, "" when it showed none
  last          \* what the last step ran: a fetch continuation with the response it
                \* got, a mount effect with the token it read, Idle otherwise

vars == <<token, route, idParam, historyUsr, pending, items, loading, filters,
          listEffect, product, detailEffect, alert, last>>

LoginRoute == "/login"
SignupRoute == "/signup"
ProductsRoute == "/products"
DetailRoute == "/products/:id"

NoId == <<>>
NoUsr == [null |-> TRUE]
NoProduct == [null |-> TRUE]
Idle == [op |-> "idle"]

Request(kind, bearer, mounted) == [kind |-> kind, bearer |-> bearer, mounted |-> mounted]

\* !token
NotToken(tok) == tok = NoToken \/ tok = ""

getToken == token

saveToken(tok) == token' = tok

removeToken == token' = NoToken

(***************************************************************************)
(* Routing.                                                                *)
(***************************************************************************)
RECURSIVE SumCopies(_, _)
SumCopies(B, S) ==
  IF S = {} THEN 0
  ELSE LET r == CHOOSE x \in S : TRUE IN B[r] + SumCopies(B, S \ {r})

\* The requests of B with those awaited by the unmounted component marked: their
\* continuations still run, their setState calls no longer have an effect.
Unmount(B, kind) ==
  LET Mark(r) == IF r.kind = kind THEN [r EXCEPT !.mounted = FALSE] ELSE r
  IN [d \in {Mark(r) : r \in DOMAIN B} |-> SumCopies(B, {r \in DOMAIN B : Mark(r) = d})]

\* A route guard that lets everything through.
PrivateRouteOpen(tok, path) == path

\* <PrivateRoute>: the login route when no token is stored, else its children.
PrivateRoute(tok, path) == IF NotToken(tok) THEN LoginRoute ELSE path

\* The element <Routes> renders for a path.
RouteFor(tok, path) ==
  LET target == IF path = "/" THEN ProductsRoute ELSE path
  IN IF target \in {ProductsRoute, DetailRoute} THEN PrivateRoute(tok, target) ELSE target

\* Fetches in flight and mount effects still to run.
InFlight ==
  BagCardinality(pending) + (IF listEffect # "none" THEN 1 ELSE 0)
                          + (IF detailEffect # "none" THEN 1 ELSE 0)

Room == InFlight < MaxPending

\* A mount effect of a component that has since been unmounted runs before
\* anything else does: React flushes pending passive effects before the render
\* that follows the navigation.
EffectsFlushed == listEffect # "orphan" /\ detailEffect # "orphan"

\* navigate(path, {state: usr}) followed by the render of the new location, with
\* tok, pend, le and de the token, the requests and the two effects as the
\* handler leaves them. A component that stays on screen keeps its state; one
\* that is mounted starts from its useState defaults with its effect to run.
navigate(path, id, usr, tok, pend, le, de) ==
  LET dest == RouteFor(tok, path)
      keepList == route = ProductsRoute /\ dest = ProductsRoute
      keepDetail == route = DetailRoute /\ dest = DetailRoute /\ id = idParam
      p1 == IF route = ProductsRoute /\ ~keepList THEN Unmount(pend, "list") ELSE pend
      p2 == IF route = DetailRoute /\ ~keepDetail THEN Unmount(p1, "detail") ELSE p1
  IN /\ route' = dest
     /\ idParam' = IF dest = DetailRoute THEN id ELSE NoId
     /\ historyUsr' = IF dest = DetailRoute THEN usr ELSE NoUsr
     /\ pending' = p2
     /\ IF keepList
          THEN /\ UNCHANGED <<items, loading, filters>>
               /\ listEffect' = le
          ELSE /\ items' = <<>>
               /\ loading' = TRUE
               /\ filters' = InitialFilters
               /\ listEffect' = IF dest = ProductsRoute THEN "pending"
                                ELSE IF le = "pending" THEN "orphan" ELSE le
     /\ IF keepDetail
          THEN /\ UNCHANGED product
               /\ detailEffect' = de
          ELSE /\ product' = NoProduct
               /\ detailEffect' = IF dest = DetailRoute THEN "pending"
                                  ELSE IF de = "pending" THEN "orphan" ELSE de

\* The navigation mounts a component whose effect will fetch.
Mounts(path, id, tok) ==
  LET dest == RouteFor(tok, path)
  IN \/ dest = ProductsRoute /\ route # ProductsRoute
     \/ dest = DetailRoute /\ ~(route = DetailRoute /\ id = idParam)

(***************************************************************************)
(* Layout: the header links and logout.                                    *)
(***************************************************************************)
Link(path) ==
  /\ EffectsFlushed
  /\ Mounts(path, NoId, token) => Room
  /\ navigate(path, NoId, NoUsr, token, pending, listEffect, detailEffect)
  /\ alert' = ""
  /\ last' = Idle
  /\ UNCHANGED token

ClickBrand == Link("/")

ClickProducts == ~NotToken(token) /\ Link(ProductsRoute)

ClickLogin == NotToken(token) /\ Link(LoginRoute)

ClickSignup == NotToken(token) /\ Link(SignupRoute)

logout ==
  /\ EffectsFlushed
  /\ ~NotToken(token)
  /\ removeToken
  /\ navigate(LoginRoute, NoId, NoUsr, NoToken, pending, listEffect, detailEffect)
  /\ alert' = ""
  /\ last' = Idle

(***************************************************************************)
(* Signup and Login.                                                       *)
(***************************************************************************)
Submit(onRoute, kind) ==
  /\ EffectsFlushed
  /\ route = onRoute
  /\ Room
  /\ pending' = pending (+) SetToBag({Request(kind, NoToken, TRUE)})
  /\ alert' = ""
  /\ last' = Idle
  /\ UNCHANGED <<token, route, idParam, historyUsr, items, loading, filters,
                 listEffect, product, detailEffect>>

SignupSubmit == Submit(SignupRoute, "signup")

LoginSubmit == Submit(LoginRoute, "login")

\* await fetch(...) and await res.json() both settle without throwing
Decoded(resp) == resp.fetch = "resolve" /\ resp.body = "json"

\* data.error || fallback
ErrorOr(resp, fallback) ==
  IF resp.error = Undefined \/ resp.error = "" THEN fallback ELSE resp.error

\* data.token alone, whatever the status.
LoginAcceptedAnyStatus(resp) == resp.token # Undefined /\ resp.token # ""

\* res.ok && data.token
LoginAccepted(resp) == resp.ok /\ resp.token # Undefined /\ resp.token # ""

Completed(r, op, resp) == [op |-> op, req |-> r, resp |-> resp]

\* A mount effect ran and read tok from localStorage.
Started(view, tok) == [op |-> "start", view |-> view, tok |-> tok]

SignupDone ==
  \E r \in BagToSet(pending), resp \in SignupResponses :
    /\ EffectsFlushed
    /\ r.kind = "signup"
    /\ last' = Completed(r, "signup", resp)
    /\ UNCHANGED token
    /\ IF Decoded(resp) /\ resp.ok
         THEN /\ alert' = "Signup successful. Please login."
              /\ navigate(LoginRoute, NoId, NoUsr, token, pending (-) SetToBag({r}),
                          listEffect, detailEffect)
         ELSE /\ alert' = IF Decoded(resp) THEN ErrorOr(resp, "Signup failed") ELSE "Signup failed"
              /\ pending' = pending (-) SetToBag({r})
              /\ UNCHANGED <<route, idParam, historyUsr, items, loading, filters,
                             listEffect, product, detailEffect>>

LoginDone ==
  \E r \in BagToSet(pending), resp \in LoginResponses :
    /\ EffectsFlushed
    /\ r.kind = "login"
    /\ last' = Completed(r, "login", resp)
    /\ IF Decoded(resp) /\ LoginAccepted(resp)
         THEN /\ saveToken(resp.token)
              /\ alert' = ""
              /\ navigate(ProductsRoute, NoId, NoUsr, resp.token, pending (-) SetToBag({r}),
                          listEffect, detailEffect)
         ELSE /\ alert' = IF Decoded(resp) THEN ErrorOr(resp, "Login failed") ELSE "Login failed"
              /\ pending' = pending (-) SetToBag({r})
              /\ UNCHANGED <<token, route, idParam, historyUsr, items, loading, filters,
                             listEffect, product, detailEffect>>

(***************************************************************************)
(* ProductList.                                                            *)
(***************************************************************************)
\* data?.data?.photos?.data || data?.photos?.data || []
PhotosOf(resp) ==
  IF resp.outer.t # "undefined" THEN resp.outer
  ELSE IF resp.inner.t # "undefined" THEN resp.inner
  ELSE JsArray(<<>>)

\* The try block throws: fetch rejects, res.json() rejects, or arr has no map.
FetchThrows(resp) == ~Decoded(resp) \/ PhotosOf(resp).t # "array"

\* arr.map(augment)
MapAugment(arr, rnd) == [i \in 1..Len(arr) |-> augment(arr[i], rnd)]

\* load() up to its await: no request without a token.
LoadRedirect ==
  /\ navigate(LoginRoute, NoId, NoUsr, token, pending, "none", detailEffect)
  /\ UNCHANGED token

LoadFetch ==
  /\ pending' = pending (+) SetToBag({Request("list", getToken, listEffect = "pending")})
  /\ listEffect' = "none"
  /\ loading' = TRUE
  /\ UNCHANGED <<token, route, idParam, historyUsr, items, filters, product, detailEffect>>

\* load() without its token test.
LoadStartUnchecked ==
  /\ listEffect # "none"
  /\ alert' = ""
  /\ last' = Started("load", getToken)
  /\ LoadFetch

LoadStart ==
  /\ listEffect # "none"
  /\ alert' = ""
  /\ last' = Started("load", getToken)
  /\ IF NotToken(getToken) THEN LoadRedirect ELSE LoadFetch

\* load() from its await on.
LoadDone ==
  \E r \in BagToSet(pending), resp \in ProductResponses, rnd \in RandomBelow(ListFallbackRange) :
    /\ EffectsFlushed
    /\ r.kind = "list"
    /\ last' = Completed(r, "load", resp)
    /\ IF FetchThrows(resp)
         THEN /\ alert' = "Failed to fetch products (token might be invalid). Please login again."
              /\ removeToken
              /\ navigate(LoginRoute, NoId, NoUsr, NoToken, pending (-) SetToBag({r}),
                          listEffect, detailEffect)
         ELSE /\ alert' = ""
              /\ pending' = pending (-) SetToBag({r})
              /\ items' = IF r.mounted THEN MapAugment(PhotosOf(resp).v, rnd) ELSE items
              /\ loading' = IF r.mounted THEN FALSE ELSE loading
              /\ UNCHANGED <<token, route, idParam, historyUsr, filters, listEffect,
                             product, detailEffect>>

Blue == <<"b", "l", "u", "e">>
Phone == <<"P", "H", "O", "N", "E">>

\* What the user types or selects in <Filters>, per field. The number inputs
\* deliver "" or the text of a number.
FilterInputs ==
  [search |-> {<<>>, Blue, Phone},
   category |-> {"", "Laptop", "Mobile"},
   minPrice |-> {<<>>, <<"0">>, <<"5", "9", "7">>, <<"-", "5">>},
   maxPrice |-> {<<>>, <<"0">>, <<"6", "9", "4">>},
   sort |-> {"", "asc", "desc"}]

\* The inputs tried while fetches are in flight.
FewFilterInputs ==
  [search |-> {<<>>, Blue},
   category |-> {"", "Laptop"},
   minPrice |-> {<<>>, <<"5", "9", "7">>},
   maxPrice |-> {<<>>, <<"0">>},
   sort |-> {"", "desc"}]

\* setFilters with the filters among the dependencies of the load effect.
setFiltersReload(field, value) ==
  /\ EffectsFlushed
  /\ route = ProductsRoute
  /\ ~loading
  /\ filters' = [filters EXCEPT ![field] = value]
  /\ listEffect' = "pending"
  /\ alert' = ""
  /\ last' = Idle
  /\ UNCHANGED <<token, route, idParam, historyUsr, pending, items, loading,
                 product, detailEffect>>

\* setFilters({ ...filters, [field]: value }), offered once the list is shown
setFilters(field, value) ==
  /\ EffectsFlushed
  /\ route = ProductsRoute
  /\ ~loading
  /\ filters' = [filters EXCEPT ![field] = value]
  /\ alert' = ""
  /\ last' = Idle
  /\ UNCHANGED <<token, route, idParam, historyUsr, pending, items, loading,
                 listEffect, product, detailEffect>>

ChangeFilters(inputs) ==
  \E field \in DOMAIN inputs : \E value \in inputs[field] :
    setFilters(field, value)

\* The onClick of a card of the displayed list.
CardClick ==
  \E i \in 1..Len(Filtered(items, filters)) :
    LET p == Filtered(items, filters)[i]
    IN /\ EffectsFlushed
       /\ route = ProductsRoute
       /\ ~loading
       /\ Room
       /\ navigate(DetailRoute, StringOfId(p.id), [product |-> p], token, pending,
                   listEffect, detailEffect)
       /\ alert' = ""
       /\ last' = Idle
       /\ UNCHANGED token

(***************************************************************************)
(* ProductDetails.                                                         *)
(***************************************************************************)
\* window.history.state.usr.state: the router keeps what navigate was given as
\* state under usr itself, so usr has a product and no state.
HasHistoryProduct ==
  /\ historyUsr # NoUsr
  /\ "state" \in DOMAIN historyUsr
  /\ "product" \in DOMAIN historyUsr.state
  /\ StringOfId(historyUsr.state.product.id) = idParam

\* arr.map(...).find((p) => String(p.id) === String(id)), found || null
FindProduct(arr, rnd, id) ==
  LET mapped == [i \in 1..Len(arr) |-> DetailAugment(arr[i], rnd)]
      hits == {i \in 1..Len(arr) : StringOfId(mapped[i].id) = id}
  IN IF hits = {} THEN NoProduct
     ELSE mapped[CHOOSE i \in hits : \A j \in hits : i <= j]

DetailStart ==
  /\ detailEffect # "none"
  /\ alert' = ""
  /\ last' = Started("detail", getToken)
  /\ IF HasHistoryProduct
       THEN /\ product' = IF detailEffect = "pending" THEN historyUsr.state.product ELSE product
            /\ detailEffect' = "none"
            /\ UNCHANGED <<token, route, idParam, historyUsr, pending, items, loading,
                           filters, listEffect>>
       ELSE IF NotToken(getToken)
         THEN /\ navigate(LoginRoute, NoId, NoUsr, token, pending, listEffect, "none")
              /\ UNCHANGED token
         ELSE /\ pending' = pending (+) SetToBag({Request("detail", getToken,
                                                          detailEffect = "pending")})
              /\ detailEffect' = "none"
              /\ UNCHANGED <<token, route, idParam, historyUsr, items, loading, filters,
                             listEffect, product>>

DetailDone ==
  \E r \in BagToSet(pending), resp \in ProductResponses, rnd \in RandomBelow(DetailFallbackRange) :
    /\ EffectsFlushed
    /\ r.kind = "detail"
    /\ last' = Completed(r, "detail", resp)
    /\ alert' = ""
    /\ pending' = pending (-) SetToBag({r})
    /\ product' = IF r.mounted /\ ~FetchThrows(resp)
                    THEN FindProduct(PhotosOf(resp).v, rnd, idParam)
                    ELSE product
    /\ UNCHANGED <<token, route, idParam, historyUsr, items, loading, filters,
                   listEffect, detailEffect>>

\* The back button, shown with the product: nav(-1) returns to the entry the
\* card was clicked on.
Back ==
  /\ EffectsFlushed
  /\ route = DetailRoute
  /\ product # NoProduct
  /\ Mounts(ProductsRoute, NoId, token) => Room
  /\ navigate(ProductsRoute, NoId, NoUsr, token, pending, listEffect, detailEffect)
  /\ alert' = ""
  /\ last' = Idle
  /\ UNCHANGED token

(***************************************************************************)
(* The application.                                                        *)
(***************************************************************************)
\* The page is opened at "/" with an empty localStorage.
Init ==
  /\ token = NoToken
  /\ route = RouteFor(NoToken, "/")
  /\ idParam = NoId
  /\ historyUsr = NoUsr
  /\ pending = EmptyBag
  /\ items = <<>>
  /\ loading = TRUE
  /\ filters = InitialFilters
  /\ listEffect = "none"
  /\ product = NoProduct
  /\ detailEffect = "none"
  /\ alert = ""
  /\ last = Idle

Next ==
  \/ ClickBrand
  \/ ClickProducts
  \/ ClickLogin
  \/ ClickSignup
  \/ logout
  \/ SignupSubmit
  \/ SignupDone
  \/ LoginSubmit
  \/ LoginDone
  \/ LoadStart
  \/ LoadDone
  \/ ChangeFilters(FewFilterInputs)
  \/ CardClick
  \/ DetailStart
  \/ DetailDone
  \/ Back

Spec == Init /\ [][Next]_vars

(***************************************************************************)
(* The catalog on screen: every array the backend may send, up to a        *)
(* length, augmented and shown, with the filters as the only thing that    *)
(* changes.                                                                *)
(***************************************************************************)
MaxItems == 3

PhotoPool ==
  { Photo(IdNum(10), BlueCase), Photo(IdNum(1), RedPhone),
    Photo(IdNum(149501), RedPhoneXL), Photo(IdText(<<"2">>), BlueLaptop) }

Arrays == UNION { [1..n -> PhotoPool] : n \in 0..MaxItems }

InitCatalog ==
  /\ token = "A"
  /\ route = ProductsRoute
  /\ idParam = NoId
  /\ historyUsr = NoUsr
  /\ pending = EmptyBag
  /\ \E arr \in Arrays, rnd \in RandomBelow(ListFallbackRange) : items = MapAugment(arr, rnd)
  /\ loading = FALSE
  /\ filters = InitialFilters
  /\ listEffect = "none"
  /\ product = NoProduct
  /\ detailEffect = "none"
  /\ alert = ""
  /\ last = Idle

NextCatalog == ChangeFilters(FilterInputs)

SpecCatalog == InitCatalog /\ [][NextCatalog]_vars

(***************************************************************************)
(* Properties.                                                             *)
(***************************************************************************)
Protected == {ProductsRoute, DetailRoute}

\* A catalog response that is a fetch failure: the network failed, the status
\* is not a success, or the payload is no JSON or carries no photo array.
IsFetchFailure(resp) ==
  \/ resp.fetch = "reject"
  \/ ~resp.ok
  \/ resp.body # "json"
  \/ (resp.outer.t # "array" /\ resp.inner.t # "array")

\* C1: whenever load() has just handled a fetch failure (network error,
\* non-success response or malformed payload), the session token is cleared and
\* the login route is shown.
FetchFailureClearsSession ==
  (last.op = "load" /\ IsFetchFailure(last.resp)) =>
    (token = NoToken /\ route = LoginRoute)

\* The catalog requests in flight, whoever awaits them.
CatalogRequests(B) ==
  SumCopies(B, {r \in DOMAIN B : r.kind \in {"list", "detail"}})

Copies(r, B) == IF r \in DOMAIN B THEN B[r] ELSE 0

\* C2: a step that sends a catalog request finds a token stored and sends that
\* token as the bearer; a mount effect of ProductList or ProductDetails that
\* finds no token sends nothing and leaves the login route shown.
CatalogFetchNeedsToken ==
  [][ /\ CatalogRequests(pending') > CatalogRequests(pending) =>
           /\ token # NoToken /\ token # ""
           /\ \E r \in DOMAIN pending' :
                /\ r.kind \in {"list", "detail"}
                /\ r.bearer = token
                /\ Copies(r, pending') > Copies(r, pending)
      /\ (last'.op = "start" /\ (last'.tok = NoToken \/ last'.tok = "")) =>
           /\ BagCardinality(pending') = BagCardinality(pending)
           /\ route' = LoginRoute ]_vars

\* C2 witness: the mount effect of ProductList ran with no token stored.
LoadStartedWithoutToken ==
  last.op = "start" /\ last.view = "load" /\ last.tok = NoToken /\ route = LoginRoute

\* The enriched items the two views hold.
Enriched ==
  {items[i] : i \in 1..Len(items)} \cup (IF product = NoProduct THEN {} ELSE {product})

\* C5: every enriched item whose id is a valid number, 0 and negative numbers
\* included, has a price in [500, 150000).
PriceInRange ==
  \A p \in Enriched :
    NumberOfId(p.id).k = "int" => (p.price >= 500 /\ p.price < 150000)

\* C6: every enriched item whose id is a valid number i, in the list view and
\* in the detail view, has category labels[i mod 5] and price
\* ((i * 97) mod 149500) + 500: no random fallback decides either.
AugmentIsFunctionOfId ==
  \A p \in Enriched :
    NumberOfId(p.id).k = "int" =>
      LET i == NumberOfId(p.id).v
      IN /\ p.category = categories[(i % 5) + 1]
         /\ p.price = ((i * 97) % 149500) + 500

\* C7: a change of the filters while the list is shown changes nothing else:
\* the fetched items, the requests in flight, the load effect, the token and
\* the loading flag stay as they are.
FilterChangeOnlyRecomputes ==
  [][ (route = ProductsRoute /\ route' = ProductsRoute /\ ~loading /\ filters' # filters) =>
        /\ items' = items
        /\ pending' = pending
        /\ listEffect' = listEffect
        /\ token' = token
        /\ loading' = loading ]_vars

\* C7 witness: the list is shown with filters that narrow or reorder it.
FiltersChangedWhenReady ==
  /\ route = ProductsRoute
  /\ ~loading
  /\ filters # InitialFilters
  /\ Filtered(items, filters) # items

\* C8: a login continuation stores the token of its response and shows the
\* catalog when the response is a success carrying a token; otherwise it leaves
\* token and route as they were and shows a message. A signup continuation
\* never changes the token.
LoginStoresTokenOnlyOnSuccess ==
  [][ /\ last'.op = "login" =>
           LET resp == last'.resp
               success == /\ resp.fetch = "resolve"
                          /\ resp.body = "json"
                          /\ resp.ok
                          /\ resp.token \notin {Undefined, ""}
           IN IF success
                THEN token' = resp.token /\ route' = ProductsRoute
                ELSE token' = token /\ route' = route /\ alert' # ""
      /\ last'.op = "signup" => token' = token ]_vars

\* C8 witness: a success response without a token arrived while a token was
\* stored; the token is still there and the message is shown.
FailedLoginKeptToken ==
  /\ last.op = "login"
  /\ last.resp.fetch = "resolve"
  /\ last.resp.body = "json"
  /\ last.resp.ok
  /\ last.resp.token = Undefined
  /\ token \in Tokens
  /\ alert = "Login failed"

\* C9: a protected route is shown only while a non-empty token is stored.
ProtectedOnlyWithToken == route \in Protected => (token # NoToken /\ token # "")

\* C9 witness: the detail view shows a product, with a token stored.
DetailShownWithToken == route = DetailRoute /\ product # NoProduct /\ token \in Tokens

\* C10: the continuation of a catalog fetch whose view has been left does not
\* touch a token that was stored after that fetch was sent.
StaleFetchKeepsNewToken ==
  [][ ( /\ last'.op \in {"load", "detail"}
        /\ ~last'.req.mounted
        /\ token # NoToken
        /\ token # last'.req.bearer ) => token' = token ]_vars

(***************************************************************************)
(* Properties of the filter/sort pipeline.                                 *)
(***************************************************************************)
\* A price bound the user set: a text that is a number.
BoundSet(text) == text # <<>> /\ NumberOfText(text).k = "int"

Matches(p, f) ==
  /\ f.search # <<>> => Includes(ToLowerCase(p.title), ToLowerCase(f.search))
  /\ f.category # "" => p.category = f.category
  /\ BoundSet(f.minPrice) => p.price >= NumberOfText(f.minPrice).v
  /\ BoundSet(f.maxPrice) => p.price <= NumberOfText(f.maxPrice).v

Occurrences(s, x) == Cardinality({i \in 1..Len(s) : s[i] = x})

\* C3: the displayed list holds exactly the items that satisfy every active
\* criterion, a bound of 0 being a bound; in their original order when no sort
\* is chosen.
FilterKeepsExactlyMatching ==
  LET out == Filtered(items, filters)
      want == SelectSeq(items, LAMBDA p : Matches(p, filters))
  IN /\ \A i \in 1..Len(items) : Occurrences(out, items[i]) = Occurrences(want, items[i])
     /\ Len(out) = Len(want)
     /\ filters.sort = "" => out = want

\* C4: with a sort chosen the displayed prices are ordered as asked, items of
\* equal price stand in the order they had among the items that passed the
\* filters, and nothing is lost or added.
SortedStablePermutation ==
  LET out == Filtered(items, filters)
      passed == Filtered(items, [filters EXCEPT !.sort = ""])
      SamePrice(s, v) == SelectSeq(s, LAMBDA p : p.price = v)
  IN /\ filters.sort = "asc" =>
          \A i, j \in 1..Len(out) : i < j => out[i].price <= out[j].price
     /\ filters.sort = "desc" =>
          \A i, j \in 1..Len(out) : i < j => out[i].price >= out[j].price
     /\ filters.sort \in {"asc", "desc"} =>
          /\ Len(out) = Len(passed)
          /\ \A i \in 1..Len(passed) :
               SamePrice(out, passed[i].price) = SamePrice(passed, passed[i].price)

\* C4 witness: a sort that moved items and left two different items of equal
\* price next to each other.
SortMovedEqualPrices ==
  LET out == Filtered(items, filters)
  IN /\ filters.sort \in {"asc", "desc"}
     /\ out # Filtered(items, [filters EXCEPT !.sort = ""])
     /\ \E i \in 1..(Len(out) - 1) :
          out[i].price = out[i + 1].price /\ out[i].id # out[i + 1].id

====
